---- MODULE Spec2Model ----
(***************************************************************************)
(* State-machine model of src/app.py: the FastAPI adapter around the       *)
(* external InferenceAgent.  The process state is the global `agent`, the  *)
(* position of startup_event, the wall clock, and the locals of the one    *)
(* /inference handler that can be running (the handler is an `async def`   *)
(* without any await, so handlers never interleave on the event loop).     *)
(*                                                                         *)
(* Conventions.                                                            *)
(*  - Python's None is a record with a flag, so that every value of a      *)
(*    variable has one shape: agent = [is_none, opt], emo = [is_none, str].*)
(*  - A file name is the sequence of its characters, so that               *)
(*    os.path.splitext is computed and not assumed.                        *)
(*  - A path is the sequence of its components; os.path.join appends.      *)
(*  - A float is held in tenths (20 is 2.0); FloatStr prints it as Python  *)
(*    prints a float inside an f-string.                                   *)
(*  - A `detail` is the sequence of the fragments the f-string joins, so   *)
(*    that "contains" can be decided.                                      *)
(*  - The three Korean messages of the source are given in English: the    *)
(*    module is ASCII.                                                     *)
(***************************************************************************)
EXTENDS Integers, Sequences, FiniteSets, TLC

VARIABLES
    agent,           \* global agent (line 24): [is_none, opt]
    opt,             \* startup_event's local opt (lines 33-35)
    startup_pc,      \* "init", "parsed", "constructed", "done", "failed"
    res_dir_exists,  \* os.makedirs(opt.res_dir) has succeeded
    clock,           \* wall clock, in ticks of 1/TicksPerSecond second
    pc,              \* position of the /inference handler
    req,             \* the request's form fields and uploads
    temp_dir,        \* scratch directory: "unset", "exists", "removed"
    staged,          \* files in the scratch directory: [path, content]
    now,             \* the clock value datetime.now() returned (line 103)
    call_time,       \* local call_time (line 103)
    res_video_path,  \* local res_video_path (lines 107-110)
    emotion,         \* local emotion (line 113)
    call,            \* the arguments run_inference was called with
    returned,        \* run_inference returned normally
    result_path,     \* local result_path (line 116)
    files,           \* output paths at which a file exists after the call
    raised,          \* the exception first raised in the handler body
    outcome,         \* how the handler ended: a raise or a returned response
    logged,          \* the finally block printed a deletion failure
    prev,            \* what the previous request computed (history)
    in_progress      \* handlers entered and not yet left (history)

vars == << agent, opt, startup_pc, res_dir_exists, clock, pc, req, temp_dir,
           staged, now, call_time, res_video_path, emotion, call, returned,
           result_path, files, raised, outcome, logged, prev, in_progress >>

----------------------------------------------------------------------------
(* Bounds and granularity *)

MaxClock == 2

TicksPerSecond == 2

----------------------------------------------------------------------------
(* Values *)

NoOpt == [res_dir |-> << >>, rank |-> 0, ngpus |-> 0]

None == [is_none |-> TRUE, opt |-> NoOpt]

ResDir == << ".", "results" >>

TempDir == << "tmp", "tmpdir" >>

OtherPath == << ".", "results", "other.mp4" >>

NoneStr == [is_none |-> TRUE, str |-> ""]

Some(s) == [is_none |-> FALSE, str |-> s]

NoExc == [type |-> "", status_code |-> 0, detail |-> << >>]

Exc(type, msg) == [type |-> type, status_code |-> 0, detail |-> << msg >>]

HTTPException(status_code, detail) ==
    [type |-> "HTTPException", status_code |-> status_code, detail |-> detail]

MsgNotLoaded == "model is not loaded yet"

MsgGenerationFailed == "video generation failed"

MsgInferenceError == "error during inference: "

MkdtempErrors == { Exc("OSError", "No usable temporary directory") }

OpenErrors == { Exc("OSError", "No space left on device") }

AgentErrors == { Exc("RuntimeError", "CUDA out of memory"),
                 Exc("ValueError", "no face detected") }

NoOutcome == [kind |-> "none", exc |-> NoExc, path |-> << >>,
              media_type |-> "", filename |-> ""]

Raise(e) == [kind |-> "raise", exc |-> e, path |-> << >>,
             media_type |-> "", filename |-> ""]

NoCall == [made |-> FALSE, res_video_path |-> << >>, ref_path |-> << >>,
           audio_path |-> << >>, a_cfg_scale |-> 0, r_cfg_scale |-> 0,
           e_cfg_scale |-> 0, emo |-> "", nfe |-> 0, no_crop |-> FALSE,
           seed |-> 0, verbose |-> FALSE]

----------------------------------------------------------------------------
(* Library functions the handler calls, computed as Python computes them *)

Max(S) == CHOOSE x \in S : \A y \in S : y <= x

\* str.rfind of one character, 1-based; 0 when the character is absent
RFind(p, c) == Max({0} \cup { i \in 1..Len(p) : p[i] = c })

\* os.path.splitext (genericpath._splitext): the extension starts at the last
\* dot after the last separator, unless only dots precede it in the name
Splitext(p) ==
    LET sepIndex == RFind(p, "/")
        dotIndex == RFind(p, ".")
    IN  IF /\ dotIndex > sepIndex
           /\ \E i \in (sepIndex + 1)..(dotIndex - 1) : p[i] # "."
        THEN << SubSeq(p, 1, dotIndex - 1), SubSeq(p, dotIndex, Len(p)) >>
        ELSE << p, << >> >>

RECURSIVE StrOf(_)
\* the Python str a sequence of characters stands for
StrOf(p) == IF p = << >> THEN "" ELSE p[1] \o StrOf(Tail(p))

\* os.path.join(dir, name) for a name without a leading separator
Join(dir, name) == Append(dir, name)

\* os.path.basename
Basename(path) == IF path = << >> THEN "" ELSE path[Len(path)]

\* os.path.exists against the files present
Exists(path, present) == path \in present

\* format of a float in an f-string: 20 (tenths) prints as "2.0"
FloatStr(x) == ToString(x \div 10) \o "." \o ToString(x % 10)

Pad2(n) == IF n < 10 THEN "0" \o ToString(n) ELSE ToString(n)

StrftimeSubSecond(t) ==
    "2026-01-01T00-00-" \o Pad2(t \div TicksPerSecond) \o "." \o ToString(t % TicksPerSecond)

\* datetime.now().strftime("%Y-%m-%dT%H-%M-%S"): the clock cut to the second
Strftime(t) == "2026-01-01T00-00-" \o Pad2(t \div TicksPerSecond)

\* str(e): Starlette prints an HTTPException as "<status_code>: <detail>",
\* any other exception as its message
Str(e) ==
    IF e.type = "HTTPException"
    THEN << ToString(e.status_code), ": " >> \o e.detail
    ELSE e.detail

\* s occurs in d as a run of consecutive fragments
Contains(d, s) ==
    \E i \in 1..(Len(d) + 1) :
        /\ i + Len(s) - 1 <= Len(d)
        /\ SubSeq(d, i, i + Len(s) - 1) = s

----------------------------------------------------------------------------
(* Expressions of the handler *)

AgentIsNoneNever(a) == FALSE

\* `agent is None` (lines 84, 157)
AgentIsNone(a) == a.is_none

\* truth value of an Optional[str]: None and "" are false
Truthy(e) == ~e.is_none /\ e.str # ""

FilenameEmoNoneOnly(e) == IF ~e.is_none THEN e.str ELSE "S2E"

\* {emo if emo else 'S2E'} inside the f-string (line 109)
FilenameEmo(e) == IF Truthy(e) THEN e.str ELSE "S2E"

\* emotion = emo if emo else 'S2E' (line 113)
Emotion(e) == IF Truthy(e) THEN e.str ELSE "S2E"

\* the f-string of line 109 with its last field given
FileName(ct, video_name, audio_name, nfe, seed, a_cfg_scale, e_cfg_scale, label) ==
    ct \o "-" \o video_name \o "-" \o audio_name
       \o "-nfe" \o ToString(nfe) \o "-seed" \o ToString(seed)
       \o "-acfg" \o FloatStr(a_cfg_scale) \o "-ecfg" \o FloatStr(e_cfg_scale)
       \o "-" \o label \o ".mp4"

\* video_name (line 104) and audio_name (line 105)
VideoName(r) == StrOf(Splitext(r.ref_image.filename)[1])

AudioName(r) == StrOf(Splitext(r.audio.filename)[1])

\* res_video_path (lines 107-110)
ResVideoPath(a, r, ct) ==
    Join(a.opt.res_dir,
         FileName(ct, VideoName(r), AudioName(r), r.nfe, r.seed,
                  r.a_cfg_scale, r.e_cfg_scale, FilenameEmo(r.emo)))

WrapWithoutText(e) == HTTPException(500, << MsgInferenceError >>)

\* HTTPException(status_code=500, detail=f"...: {str(e)}") (line 142)
Wrap(e) == HTTPException(500, << MsgInferenceError >> \o Str(e))

\* FileResponse(path=result_path, media_type=..., filename=basename) (135-139)
FileResponse(path) ==
    [kind |-> "return", exc |-> NoExc, path |-> path,
     media_type |-> "video/mp4", filename |-> Basename(path)]

----------------------------------------------------------------------------
(* Requests: the defaults of the form (lines 59-65) and their variations *)

a_jpg == << "a", ".", "j", "p", "g" >>

a_png == << "a", ".", "p", "n", "g" >>

b_jpg == << "b", ".", "j", "p", "g" >>

v_wav == << "v", ".", "w", "a", "v" >>

v_mp3 == << "v", ".", "m", "p", "3" >>

w_wav == << "w", ".", "w", "a", "v" >>

Default ==
    [ref_image   |-> [filename |-> a_jpg, content |-> "image-1"],
     audio       |-> [filename |-> v_wav, content |-> "sound-1"],
     a_cfg_scale |-> 20,
     r_cfg_scale |-> 10,
     e_cfg_scale |-> 10,
     emo         |-> NoneStr,
     nfe         |-> 10,
     no_crop     |-> FALSE,
     seed        |-> 25]

\* an upload with an empty file name: open(temp_dir + "/") raises
EmptyName == << >>

\* requests that differ from the defaults in exactly one field
OneField ==
    { [Default EXCEPT !.ref_image.filename = f] : f \in {b_jpg, EmptyName} }
    \cup { [Default EXCEPT !.audio.filename = f] :
               f \in {v_mp3, w_wav, EmptyName, a_jpg} }
    \cup { [Default EXCEPT !.audio.content = "sound-2"] }
    \cup { [Default EXCEPT !.a_cfg_scale = 15] }
    \cup { [Default EXCEPT !.e_cfg_scale = 20] }
    \cup { [Default EXCEPT !.emo = Some("happy")] }
    \cup { [Default EXCEPT !.nfe = 5] }
    \cup { [Default EXCEPT !.seed = 7] }

\* the fields the output file name leaves out, all changed at once:
\* r_cfg_scale, no_crop, the image's bytes and its extension, and emo given
\* as the empty string instead of left out
AllOther ==
    [Default EXCEPT !.r_cfg_scale = 30, !.no_crop = TRUE, !.emo = Some(""),
                    !.ref_image = [filename |-> a_png, content |-> "image-2"]]

\* the same fields changed one at a time
SameName ==
    { [Default EXCEPT !.r_cfg_scale = 30],
      [Default EXCEPT !.no_crop = TRUE],
      [Default EXCEPT !.emo = Some("")],
      [Default EXCEPT !.ref_image.filename = a_png],
      [Default EXCEPT !.ref_image.content = "image-2"],
      AllOther }

Requests == {Default} \cup OneField \cup SameName

NoReq == Default

NoPrev == [valid |-> FALSE, now |-> 0, req |-> Default, res_dir |-> << >>,
           path |-> << >>]

----------------------------------------------------------------------------
(* Initial state: the module has been imported, nothing has run *)

Init ==
    /\ agent = None
    /\ opt = NoOpt
    /\ startup_pc = "init"
    /\ res_dir_exists = FALSE
    /\ clock = 0
    /\ pc = "idle"
    /\ req = NoReq
    /\ temp_dir = "unset"
    /\ staged = {}
    /\ now = 0
    /\ call_time = ""
    /\ res_video_path = << >>
    /\ emotion = ""
    /\ call = NoCall
    /\ returned = FALSE
    /\ result_path = << >>
    /\ files = {}
    /\ raised = NoExc
    /\ outcome = NoOutcome
    /\ logged = FALSE
    /\ prev = NoPrev
    /\ in_progress = 0

startup_vars == << agent, opt, startup_pc, res_dir_exists >>

handler_vars == << pc, req, temp_dir, staged, now, call_time, res_video_path,
                   emotion, call, returned, result_path, files, raised,
                   outcome, logged, prev, in_progress >>

AwaitPointsAtCall == {"call"}

\* the positions at which the handler awaits and the event loop may run
\* another coroutine: lines 84-149 hold no await, async with or async for
AwaitPoints == {}

\* the event loop is free to start a coroutine: no handler is between its
\* first and its last statement, or the one that is has reached an await
Quiescent == pc \in {"idle", "done"} \cup AwaitPoints

\* startup_event is not between its first and its last statement
StartupSettled == startup_pc \in {"init", "done", "failed"}

----------------------------------------------------------------------------
(* The wall clock *)

Tick ==
    /\ clock < MaxClock
    /\ clock' = clock + 1
    /\ UNCHANGED << startup_vars, handler_vars >>

----------------------------------------------------------------------------
(* startup_event (lines 27-43); an exception at any statement ends it *)

ParseOptions ==
    /\ startup_pc = "init"
    /\ Quiescent
    /\ \/ /\ opt' = [res_dir |-> ResDir, rank |-> 0, ngpus |-> 1]
          /\ startup_pc' = "parsed"
       \/ /\ opt' = opt
          /\ startup_pc' = "failed"
    /\ UNCHANGED << agent, res_dir_exists, clock, handler_vars >>

ConstructAgent ==
    /\ startup_pc = "parsed"
    /\ \/ /\ agent' = [is_none |-> FALSE, opt |-> opt]
          /\ startup_pc' = "constructed"
       \/ /\ agent' = agent
          /\ startup_pc' = "failed"
    /\ UNCHANGED << opt, res_dir_exists, clock, handler_vars >>

MakeResDir ==
    /\ startup_pc = "constructed"
    /\ \/ /\ res_dir_exists' = TRUE
          /\ startup_pc' = "done"
       \/ /\ res_dir_exists' = res_dir_exists
          /\ startup_pc' = "failed"
    /\ UNCHANGED << agent, opt, clock, handler_vars >>

----------------------------------------------------------------------------
(* GET /health (lines 152-158): it reads the state and changes nothing, so
   its answer is a function of the state *)

health_check == [status |-> "healthy", model_loaded |-> ~AgentIsNone(agent)]

----------------------------------------------------------------------------
(* POST /inference (lines 55-149) *)

\* what the request that just ended computed, kept for comparison
Remember ==
    IF call.made
    THEN [valid |-> TRUE, now |-> now, req |-> req,
          res_dir |-> agent.opt.res_dir, path |-> res_video_path]
    ELSE prev

\* the framework has parsed the form and enters the handler
Request ==
    /\ Quiescent
    /\ StartupSettled
    /\ \E r \in Requests : req' = r
    /\ prev' = Remember
    /\ pc' = "entered"
    /\ temp_dir' = "unset"
    /\ staged' = {}
    /\ now' = 0
    /\ call_time' = ""
    /\ res_video_path' = << >>
    /\ emotion' = ""
    /\ call' = NoCall
    /\ returned' = FALSE
    /\ result_path' = << >>
    /\ files' = {}
    /\ raised' = NoExc
    /\ outcome' = NoOutcome
    /\ logged' = FALSE
    /\ in_progress' = in_progress + 1
    /\ UNCHANGED << startup_vars, clock >>

\* lines 84-85
CheckAgent ==
    /\ pc = "entered"
    /\ IF AgentIsNone(agent)
       THEN /\ outcome' = Raise(HTTPException(503, << MsgNotLoaded >>))
            /\ pc' = "done"
            /\ in_progress' = in_progress - 1
       ELSE /\ outcome' = outcome
            /\ pc' = "mkdtemp"
            /\ in_progress' = in_progress
    /\ UNCHANGED << startup_vars, clock, req, temp_dir, staged, now,
                    call_time, res_video_path, emotion, call, returned,
                    result_path, files, raised, logged, prev >>

\* line 88, outside the try: its exception leaves the handler as it is
Mkdtemp ==
    /\ pc = "mkdtemp"
    /\ \/ /\ temp_dir' = "exists"
          /\ pc' = "save_ref"
          /\ UNCHANGED << raised, outcome, in_progress >>
       \/ \E e \in MkdtempErrors :
             /\ raised' = e
             /\ outcome' = Raise(e)
             /\ pc' = "done"
             /\ temp_dir' = temp_dir
             /\ in_progress' = in_progress - 1
    /\ UNCHANGED << startup_vars, clock, req, staged, now, call_time,
                    res_video_path, emotion, call, returned, result_path,
                    files, logged, prev >>

UploadPathFixedName(upload) == Join(TempDir, "upload")

\* ref_path and audio_path (lines 92-93)
UploadPath(upload) == Join(TempDir, StrOf(upload.filename))

\* open(path, "wb") and copyfileobj: the file at path is created or
\* truncated and filled; a file name that is empty names the directory
\* itself and open raises; any open or write may fail
SaveUpload(upload, next) ==
    LET path == UploadPath(upload)
    IN  \/ /\ upload.filename # EmptyName
           /\ staged' = { f \in staged : f.path # path }
                           \cup { [path |-> path, content |-> upload.content] }
           /\ pc' = next
           /\ raised' = raised
        \/ /\ upload.filename = EmptyName
           /\ raised' = Exc("IsADirectoryError", "Is a directory")
           /\ pc' = "except"
           /\ staged' = staged
        \/ \E e \in OpenErrors :
             /\ upload.filename # EmptyName
             /\ raised' = e
             /\ pc' = "except"
             /\ staged' = staged

\* lines 92, 95-96
SaveRef ==
    /\ pc = "save_ref"
    /\ SaveUpload(req.ref_image, "save_audio")
    /\ UNCHANGED << startup_vars, clock, req, temp_dir, now,
                    call_time, res_video_path, emotion, call, returned,
                    result_path, files, outcome, logged, prev,
                    in_progress >>

\* lines 93, 98-99
SaveAudio ==
    /\ pc = "save_audio"
    /\ SaveUpload(req.audio, "name")
    /\ UNCHANGED << startup_vars, clock, req, temp_dir, now,
                    call_time, res_video_path, emotion, call, returned,
                    result_path, files, outcome, logged, prev,
                    in_progress >>

\* lines 102-113
ComputePath ==
    /\ pc = "name"
    /\ now' = clock
    /\ call_time' = Strftime(clock)
    /\ res_video_path' = ResVideoPath(agent, req, Strftime(clock))
    /\ emotion' = Emotion(req.emo)
    /\ pc' = "call"
    /\ UNCHANGED << startup_vars, clock, req, temp_dir, staged, call,
                    returned, result_path, files, raised, outcome, logged,
                    prev,
                    in_progress >>

\* lines 116-128: the agent is external; it raises, or it returns a path,
\* having written a file at the path it was given, at another path, at
\* both or at neither
RunInference ==
    /\ pc = "call"
    /\ call' = [made |-> TRUE,
                res_video_path |-> res_video_path,
                ref_path |-> UploadPath(req.ref_image),
                audio_path |-> UploadPath(req.audio),
                a_cfg_scale |-> req.a_cfg_scale,
                r_cfg_scale |-> req.r_cfg_scale,
                e_cfg_scale |-> req.e_cfg_scale,
                emo |-> emotion,
                nfe |-> req.nfe,
                no_crop |-> req.no_crop,
                seed |-> req.seed,
                verbose |-> TRUE]
    /\ \/ \E e \in AgentErrors :
             /\ raised' = e
             /\ pc' = "except"
             /\ UNCHANGED << returned, result_path, files >>
       \/ \E p \in {res_video_path, OtherPath},
             present \in SUBSET {res_video_path, OtherPath} :
             /\ returned' = TRUE
             /\ result_path' = p
             /\ files' = present
             /\ pc' = "check"
             /\ raised' = raised
    /\ UNCHANGED << startup_vars, clock, req, temp_dir, staged, now,
                    call_time, res_video_path, emotion, outcome, logged,
                    prev,
                    in_progress >>

CheckResultAlwaysReturns ==
    /\ pc = "check"
    /\ outcome' = FileResponse(result_path)
    /\ pc' = "finally"
    /\ UNCHANGED << startup_vars, clock, req, temp_dir, staged, now,
                    call_time, res_video_path, emotion, call, returned,
                    result_path, files, raised, logged, prev,
                    in_progress >>

\* lines 130-139: the raise of line 132 is inside the try
CheckResult ==
    /\ pc = "check"
    /\ IF ~Exists(result_path, files)
       THEN /\ raised' = HTTPException(500, << MsgGenerationFailed >>)
            /\ pc' = "except"
            /\ outcome' = outcome
       ELSE /\ outcome' = FileResponse(result_path)
            /\ pc' = "finally"
            /\ raised' = raised
    /\ UNCHANGED << startup_vars, clock, req, temp_dir, staged, now,
                    call_time, res_video_path, emotion, call, returned,
                    result_path, files, logged, prev,
                    in_progress >>

\* lines 141-142: every Exception of the try, HTTPException included
Except ==
    /\ pc = "except"
    /\ outcome' = Raise(Wrap(raised))
    /\ pc' = "finally"
    /\ UNCHANGED << startup_vars, clock, req, temp_dir, staged, now,
                    call_time, res_video_path, emotion, call, returned,
                    result_path, files, raised, logged, prev,
                    in_progress >>

FinallyForgotten ==
    /\ pc = "finally"
    /\ pc' = "done"
    /\ in_progress' = in_progress - 1
    /\ UNCHANGED << startup_vars, clock, req, temp_dir, staged, now,
                    call_time, res_video_path, emotion, call, returned,
                    result_path, files, raised, outcome, logged, prev >>

\* lines 144-149: rmtree removes the directory, or raises and is printed
Finally ==
    /\ pc = "finally"
    /\ \/ /\ temp_dir' = "removed"
          /\ staged' = {}
          /\ logged' = logged
       \/ /\ temp_dir' = temp_dir
          /\ staged' = staged
          /\ logged' = TRUE
    /\ pc' = "done"
    /\ in_progress' = in_progress - 1
    /\ UNCHANGED << startup_vars, clock, req, now, call_time,
                    res_video_path, emotion, call, returned, result_path,
                    files, raised, outcome, prev >>

----------------------------------------------------------------------------

Next ==
    \/ Tick
    \/ ParseOptions
    \/ ConstructAgent
    \/ MakeResDir
    \/ Request
    \/ CheckAgent
    \/ Mkdtemp
    \/ SaveRef
    \/ SaveAudio
    \/ ComputePath
    \/ RunInference
    \/ CheckResult
    \/ Except
    \/ Finally

Spec == Init /\ [][Next]_vars

----------------------------------------------------------------------------
(* Properties *)

NotLoaded == Raise(HTTPException(503, << MsgNotLoaded >>))

\* the finally block has run: the directory is gone, or rmtree raised and
\* the failure was printed
CleanupAttempted ==
    \/ temp_dir = "removed" /\ staged = {} /\ ~logged
    \/ temp_dir = "exists" /\ logged

\* C1: a request that got past its first statement while the global agent
\* is None has ended with the 503 and has done nothing else: no scratch
\* directory, no upload written, no call of run_inference.
C1_NotReadyRejected ==
    (pc \notin {"idle", "entered"} /\ agent = None)
        => /\ pc = "done"
           /\ outcome = NotLoaded
           /\ temp_dir = "unset"
           /\ staged = {}
           /\ ~call.made
           /\ raised = NoExc

C1_Witness ==
    /\ pc = "done"
    /\ agent = None
    /\ outcome = NotLoaded
    /\ startup_pc = "failed"

\* C2 as stated: once a handler that created a scratch directory has
\* finished, the directory no longer exists, on every exit path.
C2_ScratchAlwaysRemoved ==
    (pc = "done" /\ temp_dir # "unset") => temp_dir = "removed"

\* C2 as amended: once a handler that created a scratch directory has
\* finished, on every exit path rmtree has been attempted on it: the
\* directory and the uploads in it are gone, unless rmtree itself raised, and
\* then the failure was printed and the directory is still there.
C2_ScratchRemovedUnlessRmtreeFails ==
    (pc = "done" /\ temp_dir # "unset") => CleanupAttempted

C2_Witness ==
    /\ pc = "done"
    /\ temp_dir = "removed"
    /\ staged = {}
    /\ raised \in AgentErrors
    /\ outcome.kind = "raise"

\* C3: when run_inference returned normally and no file exists at the path
\* checked, the response is the 500 whose detail is the one fixed message of
\* line 132, with no exception text and no wrapping around it.
C3_MissingOutputFixedDetail ==
    (pc = "done" /\ returned /\ result_path \notin files)
        => outcome = Raise(HTTPException(500, << MsgGenerationFailed >>))

\* C4 as stated: when, after run_inference returned, no file exists at the
\* path the handler computed (res_video_path), the handler answers 500 and
\* the scratch directory is removed, whatever path the agent returned.
C4_NoFileAtComputedPath ==
    (pc = "done" /\ returned /\ res_video_path \notin files)
        => /\ outcome.kind = "raise"
           /\ outcome.exc.status_code = 500
           /\ temp_dir = "removed"

\* C4 as amended: when, after run_inference returned, no file exists at the
\* path the agent returned (result_path), the handler answers 500 and rmtree
\* has been attempted on the scratch directory (gone unless rmtree raised).
C4_NoFileAtReturnedPath ==
    (pc = "done" /\ returned /\ result_path \notin files)
        => /\ outcome.kind = "raise"
           /\ outcome.exc.type = "HTTPException"
           /\ outcome.exc.status_code = 500
           /\ CleanupAttempted

C4_Witness ==
    /\ pc = "done"
    /\ returned
    /\ result_path \notin files
    /\ result_path # res_video_path
    /\ res_video_path \in files
    /\ outcome.kind = "raise"
    /\ outcome.exc.status_code = 500
    /\ temp_dir = "removed"

\* C5 as stated: after the readiness check, an exception raised at any later
\* step (mkdtemp included) ends the request with a 500 whose detail contains
\* that exception's string.
C5_EveryExceptionWrapped ==
    (pc = "done" /\ raised # NoExc)
        => /\ outcome.kind = "raise"
           /\ outcome.exc.type = "HTTPException"
           /\ outcome.exc.status_code = 500
           /\ Contains(outcome.exc.detail, Str(raised))

\* C5 as amended: an exception raised inside the try block (writing either
\* upload, the run_inference call, the raise of the output check) ends the
\* request with an HTTPException 500 whose detail is the prefix followed by
\* that exception's string; an exception of mkdtemp, which is outside the
\* try, leaves the handler unwrapped.
C5_TryExceptionsWrapped ==
    (pc = "done" /\ raised # NoExc)
        => IF temp_dir = "unset"
           THEN raised \in MkdtempErrors /\ outcome = Raise(raised)
           ELSE /\ outcome.kind = "raise"
                /\ outcome.exc.type = "HTTPException"
                /\ outcome.exc.status_code = 500
                /\ outcome.exc.detail = << MsgInferenceError >> \o Str(raised)
                /\ Contains(outcome.exc.detail, Str(raised))

C5_Witness ==
    /\ pc = "done"
    /\ raised = Exc("ValueError", "no face detected")
    /\ outcome.exc.type = "HTTPException"
    /\ Contains(outcome.exc.detail, << "no face detected" >>)

\* the label the form's emo stands for: 'S2E' when absent or empty
Resolved(e) == IF e.is_none \/ e.str = "" THEN "S2E" ELSE e.str

\* C6: the emo passed to run_inference is 'S2E' when the form's emo is absent
\* or empty and the form's emo otherwise, and the output file name is the
\* pattern of line 109 with that same value as its last field.
C6_EmotionLabelAgrees ==
    call.made
        => /\ call.emo = Resolved(req.emo)
           /\ Basename(call.res_video_path)
                = FileName(call_time, VideoName(req), AudioName(req), req.nfe,
                           req.seed, req.a_cfg_scale, req.e_cfg_scale, call.emo)

C6_Witness ==
    /\ call.made
    /\ req.emo = Some("")
    /\ call.emo = "S2E"

\* the previous request and this one agree on everything the output path is
\* said to depend on
SameKey ==
    /\ prev.now \div TicksPerSecond = now \div TicksPerSecond
    /\ Splitext(prev.req.ref_image.filename)[1] = Splitext(req.ref_image.filename)[1]
    /\ Splitext(prev.req.audio.filename)[1] = Splitext(req.audio.filename)[1]
    /\ prev.req.nfe = req.nfe
    /\ prev.req.seed = req.seed
    /\ prev.req.a_cfg_scale = req.a_cfg_scale
    /\ prev.req.e_cfg_scale = req.e_cfg_scale
    /\ Resolved(prev.req.emo) = Resolved(req.emo)
    /\ prev.res_dir = agent.opt.res_dir

\* C7: two requests that agree on the second of the timestamp, the two base
\* names, nfe, seed, a_cfg_scale, e_cfg_scale, the resolved emotion label and
\* res_dir compute the same output path, whatever else differs; and the path
\* computed is the one passed to run_inference.
C7_PathDeterminedByKey ==
    /\ (prev.valid /\ call.made /\ SameKey) => prev.path = res_video_path
    /\ call.made => call.res_video_path = res_video_path

C7_Witness ==
    /\ prev.valid
    /\ call.made
    /\ SameKey
    /\ prev.now # now
    /\ prev.req.r_cfg_scale # req.r_cfg_scale
    /\ prev.req.no_crop # req.no_crop
    /\ prev.req.ref_image # req.ref_image
    /\ prev.req.emo # req.emo
    /\ prev.path = res_video_path

\* C8: after a startup that failed at any of its steps the global agent is
\* None, so /health reports model_loaded false.
C8_FailedStartupLeavesAgentNone ==
    startup_pc = "failed" => (agent = None /\ ~health_check.model_loaded)

\* run_inference has been invoked and the finally block has not yet run
Invoked == call.made /\ pc \in {"check", "except", "finally"}

InScratch(path) == Len(path) = Len(TempDir) + 1 /\ SubSeq(path, 1, Len(TempDir)) = TempDir

\* the scratch directory holds the image under its name with its bytes and
\* the audio under its name with its bytes, as two files
TwoFilesStaged ==
    /\ call.ref_path # call.audio_path
    /\ InScratch(call.ref_path)
    /\ InScratch(call.audio_path)
    /\ Basename(call.ref_path) = StrOf(req.ref_image.filename)
    /\ Basename(call.audio_path) = StrOf(req.audio.filename)
    /\ staged = { [path |-> call.ref_path, content |-> req.ref_image.content],
                  [path |-> call.audio_path, content |-> req.audio.content] }
    /\ Cardinality(staged) = 2

====
